---- MODULE Spec2Model ----
(***************************************************************************)
(* A model of https-server.py: a static file server over TLS that adds     *)
(* three CORS headers to every header block it writes.                     *)
(*                                                                         *)
(* The request handler (CORSHTTPRequestHandler and the methods it inherits *)
(* from http.server) is modelled functionally: a handler is a record and   *)
(* every method is an operator from handler to handler.  main() and the    *)
(* accept loop of socketserver are modelled as a state machine over pc.    *)
(***************************************************************************)
EXTENDS Integers, Sequences, FiniteSets, TLC

\* Number of connections the model lets the accept loop take.
MaxRequests == 2

\* port = 3000
Port == 3000

\* Request paths, relative to the working directory.
Paths == {"/a", "/d"}

\* What a path is on disk.  "locked" is a file open() refuses (OSError).
Kinds == {"absent", "file", "locked", "dir_index", "dir_plain"}

FileSystems == [Paths -> Kinds]

Methods == {"GET", "HEAD", "OPTIONS", "POST", "PUT", "DELETE"}

\* The last word of a three-word request line.
Versions == {"HTTP/0.9", "HTTP/1.0", "HTTP/1.1", "HTTP/2.0", "FOO"}

\* What else can be wrong with a request: a request line of more than 65536
\* bytes, or headers that http.client.parse_headers rejects.
Defects == {"none", "toolong", "badhdr"}

\* A request line of nwords words, with the If-Modified-Since condition
\* (ims: the header is present and not older than the file).
Requests ==
    [nwords : {3}, command : Methods, path : Paths, slash : BOOLEAN,
     version : Versions, ims : BOOLEAN, defect : {"none"}]
    \cup [nwords : {3}, command : Methods, path : {"/a"}, slash : {FALSE},
          version : {"HTTP/1.1"}, ims : {FALSE}, defect : Defects]
    \cup [nwords : {2}, command : Methods, path : Paths, slash : BOOLEAN,
          version : {""}, ims : {FALSE}, defect : {"none"}]
    \cup [nwords : {0, 1, 4}, command : {"GET", "OPTIONS"}, path : {"/a"},
          slash : {FALSE}, version : {"HTTP/1.1"}, ims : {FALSE},
          defect : {"none"}]

NoRequest ==
    [nwords |-> 0, command |-> "", path |-> "", slash |-> FALSE,
     version |-> "", ims |-> FALSE, defect |-> "none"]

-----------------------------------------------------------------------------
(* The request handler.                                                    *)

\* One item of the headers buffer or of the bytes written to the client.
Tok(t, k, v, c) == [t |-> t, k |-> k, v |-> v, c |-> c]

\* One call recorded in the handler's call log.
Call(op, k) == [op |-> op, k |-> k]

\* A handler as StreamRequestHandler.__init__ leaves it, before handle().
NewHandler ==
    [request_version |-> "", command |-> "", hbuf |-> <<>>, wire |-> <<>>,
     fsops |-> <<>>, calls |-> <<>>, raised |-> FALSE]

CORSHeaders ==
    << Tok("hdr", "Access-Control-Allow-Origin", "*", 0),
       Tok("hdr", "Access-Control-Allow-Methods",
           "GET, POST, PUT, DELETE, OPTIONS", 0),
       Tok("hdr", "Access-Control-Allow-Headers",
           "Content-Type, Authorization", 0) >>

send_response_only(h, code) ==
    IF h.request_version # "HTTP/0.9"
    THEN [h EXCEPT !.hbuf = Append(@, Tok("status", "", "HTTP/1.0", code))]
    ELSE h

send_header(h, keyword, value) ==
    LET h1 == [h EXCEPT !.calls = Append(@, Call("send_header", keyword))]
    IN  IF h1.request_version # "HTTP/0.9"
        THEN [h1 EXCEPT !.hbuf = Append(@, Tok("hdr", keyword, value, 0))]
        ELSE h1

\* BaseHTTPRequestHandler.end_headers with flush_headers.
super_end_headers(h) ==
    LET h1 == [h EXCEPT !.calls = Append(@, Call("super_end_headers", ""))]
    IN  IF h1.request_version # "HTTP/0.9"
        THEN [h1 EXCEPT !.wire = @ \o h1.hbuf \o <<Tok("end", "", "", 0)>>,
                        !.hbuf = <<>>]
        ELSE h1

\* Faulty variant: the CORS headers are sent after the header block was flushed.
end_headers_late(h) ==
    LET h0 == super_end_headers([h EXCEPT !.calls = Append(@, Call("end_headers", ""))])
        h1 == send_header(h0, CORSHeaders[1].k, CORSHeaders[1].v)
        h2 == send_header(h1, CORSHeaders[2].k, CORSHeaders[2].v)
    IN  send_header(h2, CORSHeaders[3].k, CORSHeaders[3].v)

\* Faulty variant: the Allow-Headers line is left out.
end_headers_two(h) ==
    LET h0 == [h EXCEPT !.calls = Append(@, Call("end_headers", ""))]
        h1 == send_header(h0, CORSHeaders[1].k, CORSHeaders[1].v)
        h2 == send_header(h1, CORSHeaders[2].k, CORSHeaders[2].v)
    IN  super_end_headers(h2)

\* CORSHTTPRequestHandler.end_headers
end_headers(h) ==
    LET h0 == [h EXCEPT !.calls = Append(@, Call("end_headers", ""))]
        h1 == send_header(h0, "Access-Control-Allow-Origin", "*")
        h2 == send_header(h1, "Access-Control-Allow-Methods",
                          "GET, POST, PUT, DELETE, OPTIONS")
        h3 == send_header(h2, "Access-Control-Allow-Headers",
                          "Content-Type, Authorization")
    IN  super_end_headers(h3)

send_response(h, code) ==
    LET h1 == send_response_only(h, code)
        h2 == send_header(h1, "Server", "SimpleHTTP/0.6")
    IN  send_header(h2, "Date", "now")

\* self.wfile.write(body) / copyfile: body bytes of kind v for path k.
write_body(h, k, v, c) ==
    [h EXCEPT !.wire = Append(@, Tok("body", k, v, c)),
              !.calls = Append(@, Call("write_body", ""))]

send_error(h, code) ==
    LET h1 == send_header(send_response(h, code), "Connection", "close")
        hasBody == code >= 200 /\ code \notin {204, 205, 304}
        h2 == IF hasBody
              THEN send_header(
                       send_header(h1, "Content-Type", "text/html;charset=utf-8"),
                       "Content-Length", "len(body)")
              ELSE h1
        h3 == end_headers(h2)
    IN  IF h.command # "HEAD" /\ hasBody
        THEN write_body(h3, "", "error", code)
        ELSE h3

ValidVersion(v) == v \in {"HTTP/0.9", "HTTP/1.0", "HTTP/1.1", "HTTP/2.0"}

\* int(version_number[0]) of a valid version word.
VersionMajor(v) ==
    IF v = "HTTP/2.0" THEN 2 ELSE IF v = "HTTP/0.9" THEN 0 ELSE 1

\* [ok, h]: parse_request's return value and the handler it leaves.
parse_request(h, req) ==
    LET h0 == [h EXCEPT !.command = "", !.request_version = "HTTP/0.9"]
    IN  IF req.nwords = 0 THEN [ok |-> FALSE, h |-> h0]
        ELSE IF req.nwords >= 3 /\ ~ValidVersion(req.version)
        THEN [ok |-> FALSE, h |-> send_error(h0, 400)]
        ELSE IF req.nwords >= 3 /\ VersionMajor(req.version) >= 2
        THEN [ok |-> FALSE, h |-> send_error(h0, 505)]
        ELSE LET h1 == IF req.nwords >= 3
                       THEN [h0 EXCEPT !.request_version = req.version]
                       ELSE h0
             IN  IF ~(2 <= req.nwords /\ req.nwords <= 3)
                 THEN [ok |-> FALSE, h |-> send_error(h1, 400)]
                 ELSE IF req.nwords = 2 /\ req.command # "GET"
                 THEN [ok |-> FALSE, h |-> send_error(h1, 400)]
                 ELSE LET h2 == [h1 EXCEPT !.command = req.command]
                      IN  IF req.defect = "badhdr"
                          THEN [ok |-> FALSE, h |-> send_error(h2, 431)]
                          ELSE [ok |-> TRUE, h |-> h2]

\* A file-system call made while serving.
fsop(h, op, path) == [h EXCEPT !.fsops = Append(@, Call(op, path))]

\* SimpleHTTPRequestHandler.list_directory
list_directory(h, req) ==
    LET h1 == fsop(h, "listdir", req.path)
        h2 == send_response(h1, 200)
        h3 == send_header(h2, "Content-type", "text/html; charset=utf-8")
        h4 == send_header(h3, "Content-Length", "len(listing)")
    IN  [f |-> "listing", h |-> end_headers(h4)]

\* [f, h]: the file object send_head returns ("none" for None).
send_head(h, req, fs) ==
    LET kind == fs[req.path]
        h1 == fsop(h, "isdir", req.path)
        isdir == kind \in {"dir_index", "dir_plain"}
        serve(hh, what) ==
            LET h2 == fsop(hh, "open", req.path)
            IN  IF what = "file" /\ kind \in {"absent", "locked"}
                THEN [f |-> "none", h |-> send_error(h2, 404)]
                ELSE LET h3 == fsop(h2, "fstat", req.path)
                     IN  IF req.ims
                         THEN [f |-> "none",
                               h |-> end_headers(send_response(h3, 304))]
                         ELSE LET h4 == send_response(h3, 200)
                                  h5 == send_header(h4, "Content-type", "guess_type")
                                  h6 == send_header(h5, "Content-Length", "st_size")
                                  h7 == send_header(h6, "Last-Modified", "st_mtime")
                              IN  [f |-> what, h |-> end_headers(h7)]
    IN  IF isdir /\ ~req.slash
        THEN LET h2 == send_response(h1, 301)
                 h3 == send_header(h2, "Location", "path/")
                 h4 == send_header(h3, "Content-Length", "0")
             IN  [f |-> "none", h |-> end_headers(h4)]
        ELSE IF isdir
        THEN LET h2 == fsop(h1, "isfile", req.path)
             IN  IF kind = "dir_index" THEN serve(h2, "index.html")
                 ELSE list_directory(h2, req)
        ELSE IF req.slash
        THEN [f |-> "none", h |-> send_error(h1, 404)]
        ELSE serve(h1, "file")

\* do_GET; io: reading the file or writing to the client fails part-way.
do_GET(h, req, fs, io) ==
    LET r == send_head(h, req, fs)
    IN  IF r.f = "none" THEN r.h
        ELSE IF io
        THEN [write_body(r.h, req.path, "partial", 0) EXCEPT !.raised = TRUE]
        ELSE write_body(r.h, req.path, r.f, 0)

do_HEAD(h, req, fs) == send_head(h, req, fs).h

\* Faulty variant: the preflight is answered like a HEAD request.
do_OPTIONS_as_head(h, req, fs) == do_HEAD(h, req, fs)

\* CORSHTTPRequestHandler.do_OPTIONS (req and fs are not used).
do_OPTIONS(h, req, fs) == end_headers(send_response(h, 200))

\* hasattr(self, 'do_' + self.command)
HasMethod(command) == command \in {"GET", "HEAD", "OPTIONS"}

\* Faulty variant: every method is served as a file request.
dispatch_all_static(h, req, fs, io) ==
    IF h.command = "OPTIONS" THEN do_OPTIONS(h, req, fs)
    ELSE IF h.command = "HEAD" THEN do_HEAD(h, req, fs)
    ELSE do_GET(h, req, fs, io)

\* mname = 'do_' + self.command; getattr(self, mname)()
dispatch(h, req, fs, io) ==
    IF ~HasMethod(h.command) THEN send_error(h, 501)
    ELSE IF h.command = "OPTIONS" THEN do_OPTIONS(h, req, fs)
    ELSE IF h.command = "HEAD" THEN do_HEAD(h, req, fs)
    ELSE do_GET(h, req, fs, io)

\* BaseHTTPRequestHandler.handle_one_request
handle_one_request(h, req, fs, io) ==
    LET p == parse_request(h, req)
    IN  IF req.defect = "toolong"
        THEN send_error([h EXCEPT !.request_version = "", !.command = ""], 414)
        ELSE IF ~p.ok THEN p.h
        ELSE dispatch(p.h, req, fs, io)

-----------------------------------------------------------------------------
(* main() and the accept loop.                                             *)

VARIABLES
    pc,          \* where main() is
    certExists,  \* ssl/server.crt exists
    keyExists,   \* ssl/server.key exists
    portFree,    \* the port can be bound
    certValid,   \* load_cert_chain accepts the pair
    fs,          \* the working directory
    sock,        \* httpd.socket: "none", "listening" or "closed"
    wrapped,     \* httpd.socket is the TLS-wrapped socket
    ctxLoaded,   \* context holds the certificate chain
    stdout,      \* the lines printed
    exitCode,    \* -1 while the process runs
    shutdownReq, \* BaseServer.__shutdown_request
    isShutDown,  \* BaseServer.__is_shut_down
    req,         \* the request of the accepted connection
    h,           \* its handler
    nServed,     \* connections taken from the listener
    failures,    \* requests that ended in an error
    steps,       \* history: the startup steps taken, in order
    intInLoop    \* history: an interrupt arrived inside the accept loop

vars ==
    << pc, certExists, keyExists, portFree, certValid, fs, sock, wrapped,
       ctxLoaded, stdout, exitCode, shutdownReq, isShutDown, req, h, nServed,
       failures, steps, intInLoop >>

env == << certExists, keyExists, portFree, certValid, fs >>

Line(text, port) == [text |-> text, port |-> port]

Guidance ==
    << Line("SSL certificates not found!", 0),
       Line("Please run ./generate-ssl.sh first to create SSL certificates.", 0) >>

\* f"HTTPS server starting on https://localhost:{port}/" and the notes.
Banner ==
    << Line("HTTPS server starting on https://localhost:{port}/", Port),
       Line("Note: Your browser will show a security warning for the self-signed certificate.", 0),
       Line("Click 'Advanced' then 'Proceed to localhost (unsafe)' to continue.", 0),
       Line("Press Ctrl+C to stop the server", 0) >>

StoppedNotice == Line("\nServer stopped", 0)

Init ==
    /\ pc = "start"
    /\ certExists \in BOOLEAN
    /\ keyExists \in BOOLEAN
    /\ portFree \in BOOLEAN
    /\ certValid \in BOOLEAN
    /\ fs \in FileSystems
    /\ sock = "none"
    /\ wrapped = FALSE
    /\ ctxLoaded = FALSE
    /\ stdout = <<>>
    /\ exitCode = -1
    /\ shutdownReq = FALSE
    /\ isShutDown = FALSE
    /\ req = NoRequest
    /\ h = NewHandler
    /\ nServed = 0
    /\ failures = 0
    /\ steps = <<>>
    /\ intInLoop = FALSE

\* Faulty variant: the check fails only when both files are missing.
CertsMissing_both(cert, key) == ~cert /\ ~key

\* not cert_file.exists() or not key_file.exists()
CertsMissing(cert, key) == ~cert \/ ~key

\* if not cert_file.exists() or not key_file.exists(): ... sys.exit(1)
CertCheck ==
    /\ pc = "start"
    /\ steps' = Append(steps, "check")
    /\ IF CertsMissing(certExists, keyExists)
       THEN /\ stdout' = stdout \o Guidance
            /\ exitCode' = 1
            /\ pc' = "exited"
       ELSE /\ pc' = "checked"
            /\ UNCHANGED << stdout, exitCode >>
    /\ UNCHANGED << env, sock, wrapped, ctxLoaded, shutdownReq, isShutDown,
                    req, h, nServed, failures, intInLoop >>

\* httpd = http.server.HTTPServer(server_address, CORSHTTPRequestHandler):
\* socket(), bind(), listen(); a failed bind closes the socket and raises.
CreateServer ==
    /\ pc = "checked"
    /\ steps' = Append(steps, "bind")
    /\ IF portFree
       THEN /\ sock' = "listening"
            /\ pc' = "bound"
            /\ UNCHANGED exitCode
       ELSE /\ sock' = "closed"
            /\ exitCode' = 1
            /\ pc' = "exited"
    /\ UNCHANGED << env, wrapped, ctxLoaded, stdout, shutdownReq, isShutDown,
                    req, h, nServed, failures, intInLoop >>

\* context.load_cert_chain(str(cert_file), str(key_file)); raises on a bad pair.
LoadCertChain ==
    /\ pc = "bound"
    /\ steps' = Append(steps, "load")
    /\ IF certValid
       THEN /\ ctxLoaded' = TRUE
            /\ pc' = "loaded"
            /\ UNCHANGED exitCode
       ELSE /\ exitCode' = 1
            /\ pc' = "exited"
            /\ UNCHANGED ctxLoaded
    /\ UNCHANGED << env, sock, wrapped, stdout, shutdownReq, isShutDown,
                    req, h, nServed, failures, intInLoop >>

\* Faulty variant: the wrapped socket is not assigned to httpd.socket.
WrapSocket_unassigned ==
    /\ pc = "loaded"
    /\ steps' = Append(steps, "wrap")
    /\ pc' = "wrapped"
    /\ UNCHANGED << env, sock, wrapped, ctxLoaded, stdout, exitCode, shutdownReq,
                    isShutDown, req, h, nServed, failures, intInLoop >>

\* httpd.socket = context.wrap_socket(httpd.socket, server_side=True)
WrapSocket ==
    /\ pc = "loaded"
    /\ steps' = Append(steps, "wrap")
    /\ wrapped' = TRUE
    /\ pc' = "wrapped"
    /\ UNCHANGED << env, sock, ctxLoaded, stdout, exitCode, shutdownReq,
                    isShutDown, req, h, nServed, failures, intInLoop >>

\* The four print calls before the try statement.
PrintBanner ==
    /\ pc = "wrapped"
    /\ steps' = Append(steps, "banner")
    /\ stdout' = stdout \o Banner
    /\ pc' = "try"
    /\ UNCHANGED << env, sock, wrapped, ctxLoaded, exitCode, shutdownReq,
                    isShutDown, req, h, nServed, failures, intInLoop >>

\* httpd.serve_forever() up to its loop: __is_shut_down.clear(), try:
ServeForeverEnter ==
    /\ pc = "try"
    /\ steps' = Append(steps, "serve")
    /\ isShutDown' = FALSE
    /\ pc' = "select"
    /\ UNCHANGED << env, sock, wrapped, ctxLoaded, stdout, exitCode, shutdownReq,
                    req, h, nServed, failures, intInLoop >>

\* _handle_request_noblock: get_request() returns a connection (the TLS
\* handshake is part of accept); finish_request constructs the handler.
Accept(r) ==
    /\ pc = "select"
    /\ ~shutdownReq
    /\ nServed < MaxRequests
    /\ nServed' = nServed + 1
    /\ req' = r
    /\ h' = NewHandler
    /\ pc' = "accepted"
    /\ UNCHANGED << env, sock, wrapped, ctxLoaded, stdout, exitCode, shutdownReq,
                    isShutDown, failures, steps, intInLoop >>

\* get_request() raises OSError (a failed handshake): return to the loop.
AcceptFail ==
    /\ pc = "select"
    /\ ~shutdownReq
    /\ nServed < MaxRequests
    /\ nServed' = nServed + 1
    /\ UNCHANGED << pc, env, sock, wrapped, ctxLoaded, stdout, exitCode,
                    shutdownReq, isShutDown, req, h, failures, steps, intInLoop >>

\* The handler's handle(): one request, the connection is not kept alive.
Handle(io) ==
    /\ pc = "accepted"
    /\ h' = handle_one_request(h, req, fs, io)
    /\ pc' = "handled"
    /\ UNCHANGED << env, sock, wrapped, ctxLoaded, stdout, exitCode, shutdownReq,
                    isShutDown, req, nServed, failures, steps, intInLoop >>

\* The status a response shows the client: its status line's code, or the
\* code of its error page when no status line was written, or 0.
StatusOf(w) ==
    IF w = <<>> THEN 0
    ELSE IF w[1].t = "status" THEN w[1].c
    ELSE IF w[1].t = "body" /\ w[1].v = "error" THEN w[1].c
    ELSE 0

\* A request that ended in an error: an error response or a raised exception.
Failed(hh) == hh.raised \/ StatusOf(hh.wire) >= 400

\* Faulty variant: an exception raised by the handler leaves the accept loop.
AfterRequest_crash(hh) ==
    IF hh.raised THEN [pc |-> "exited", exitCode |-> 1]
    ELSE [pc |-> "select", exitCode |-> -1]

\* _handle_request_noblock after the handler: except Exception: handle_error
\* and shutdown_request; otherwise shutdown_request; the loop goes on.
AfterRequest(hh) ==
    IF hh.raised THEN [pc |-> "select", exitCode |-> -1]
    ELSE [pc |-> "select", exitCode |-> -1]

CloseRequest ==
    /\ pc = "handled"
    /\ pc' = AfterRequest(h).pc
    /\ exitCode' = AfterRequest(h).exitCode
    /\ failures' = failures + (IF Failed(h) THEN 1 ELSE 0)
    /\ req' = NoRequest
    /\ h' = NewHandler
    /\ UNCHANGED << env, sock, wrapped, ctxLoaded, stdout, shutdownReq,
                    isShutDown, nServed, steps, intInLoop >>

\* Faulty variant: leaving serve_forever does not set the event shutdown() waits for.
ServeForeverFinally_unset(inLoop, ev) == ev

\* serve_forever's finally clause, run when the exception leaves its try:
\* self.__is_shut_down.set()
ServeForeverFinally(inLoop, ev) == IF inLoop THEN TRUE ELSE ev

\* KeyboardInterrupt raised in main's try statement: before serve_forever's
\* own try (pc = "try") or inside its loop, where the finally clause runs and
\* the connection being handled is closed.
Interrupt ==
    /\ pc \in {"try", "select", "accepted", "handled"}
    /\ intInLoop' = (pc # "try")
    /\ isShutDown' = ServeForeverFinally(pc # "try", isShutDown)
    /\ shutdownReq' = FALSE
    /\ req' = NoRequest
    /\ h' = NewHandler
    /\ pc' = "except"
    /\ UNCHANGED << env, sock, wrapped, ctxLoaded, stdout, exitCode, nServed,
                    failures, steps >>

\* print("\nServer stopped")
PrintStopped ==
    /\ pc = "except"
    /\ stdout' = Append(stdout, StoppedNotice)
    /\ pc' = "shutdown"
    /\ UNCHANGED << env, sock, wrapped, ctxLoaded, exitCode, shutdownReq,
                    isShutDown, req, h, nServed, failures, steps, intInLoop >>

\* httpd.shutdown(): self.__shutdown_request = True
ShutdownSet ==
    /\ pc = "shutdown"
    /\ shutdownReq' = TRUE
    /\ pc' = "shutdown_wait"
    /\ UNCHANGED << env, sock, wrapped, ctxLoaded, stdout, exitCode, isShutDown,
                    req, h, nServed, failures, steps, intInLoop >>

\* httpd.shutdown(): self.__is_shut_down.wait(); then main returns.
ShutdownWait ==
    /\ pc = "shutdown_wait"
    /\ isShutDown
    /\ exitCode' = 0
    /\ pc' = "exited"
    /\ UNCHANGED << env, sock, wrapped, ctxLoaded, stdout, shutdownReq,
                    isShutDown, req, h, nServed, failures, steps, intInLoop >>

Next ==
    \/ CertCheck
    \/ CreateServer
    \/ LoadCertChain
    \/ WrapSocket
    \/ PrintBanner
    \/ ServeForeverEnter
    \/ \E r \in Requests : Accept(r)
    \/ AcceptFail
    \/ \E io \in BOOLEAN : Handle(io)
    \/ CloseRequest
    \/ Interrupt
    \/ PrintStopped
    \/ ShutdownSet
    \/ ShutdownWait

Spec == Init /\ [][Next]_vars

\* The interrupt handler is straight-line code on the main thread: each of
\* its steps is taken once it can be.
LiveSpec ==
    Spec /\ WF_vars(PrintStopped) /\ WF_vars(ShutdownSet) /\ WF_vars(ShutdownWait)

-----------------------------------------------------------------------------
(* Vocabulary of the properties.                                           *)

\* The request line has three or more words and its last names HTTP/1.x.
Versioned(r) == r.nwords >= 3 /\ r.version \in {"HTTP/1.0", "HTTP/1.1"}

\* A request the parser accepts: method, path and an HTTP/1.x version on a
\* request line of ordinary length, and headers that parse.
WellFormed(r) == Versioned(r) /\ r.nwords = 3 /\ r.defect = "none"

\* A response was written for the request being handled.
Responded == pc = "handled" /\ h.wire # <<>>

Headers(w) == SelectSeq(w, LAMBDA t : t.t = "hdr")

Bodies(w) == SelectSeq(w, LAMBDA t : t.t = "body")

Count(w, x) == Cardinality({i \in DOMAIN w : w[i] = x})

HasCORS(w) == \A i \in 1..3 : \E j \in DOMAIN w : w[j] = CORSHeaders[i]

\* The header block of w ends with the three CORS headers, each of them is
\* in w once, and no body byte comes before them.
CORSLastOnce(w) ==
    \E e \in DOMAIN w :
        /\ w[e].t = "end"
        /\ e >= 5
        /\ w[1].t = "status"
        /\ \A i \in 1..3 : w[e - 4 + i] = CORSHeaders[i]
        /\ \A i \in 1..3 : Count(w, CORSHeaders[i]) = 1
        /\ \A j \in DOMAIN w : w[j].t = "body" => j > e
        /\ \A j \in DOMAIN w : w[j].t \in {"status", "hdr"} => j < e

\* The overridden end_headers ran once: its three send_header calls and the
\* inherited end_headers follow it directly, and only body writes come after.
EndHeadersOnce(c) ==
    \E i \in DOMAIN c :
        /\ c[i].op = "end_headers"
        /\ Count(c, Call("end_headers", "")) = 1
        /\ i + 4 <= Len(c)
        /\ \A n \in 1..3 : c[i + n] = Call("send_header", CORSHeaders[n].k)
        /\ c[i + 4].op = "super_end_headers"
        /\ \A j \in DOMAIN c : (c[j].op = "write_body") <=> (j > i + 4)

MainOrder == << "check", "bind", "load", "wrap", "banner", "serve" >>

IsPrefix(s, t) == Len(s) <= Len(t) /\ \A i \in DOMAIN s : s[i] = t[i]

Printed(line) == \E i \in DOMAIN stdout : stdout[i] = line

-----------------------------------------------------------------------------
(* The properties.                                                         *)

\* C1 as stated: every response the server writes, whatever the method and
\* the path, holds the three CORS headers with their literal values.
C1_EveryResponseHasCORS == Responded => HasCORS(h.wire)

\* C1 amended: every response to a request line that names an HTTP/1.x
\* version holds the three CORS headers with their literal values (success,
\* redirect, 304, 404, 400, 501 and preflight alike).
C1_VersionedResponseHasCORS ==
    (pc = "handled" /\ Versioned(req)) => (h.wire # <<>> /\ HasCORS(h.wire))

C1_Witness ==
    /\ Responded /\ Versioned(req) /\ req.command = "GET"
    /\ StatusOf(h.wire) = 404 /\ HasCORS(h.wire)

\* C2 as stated: an OPTIONS request is answered 200 with an empty body and
\* a header set of exactly the three CORS headers.
C2_OptionsOnlyCORSHeaders ==
    (pc = "handled" /\ WellFormed(req) /\ req.command = "OPTIONS")
        => /\ StatusOf(h.wire) = 200
           /\ Bodies(h.wire) = <<>>
           /\ Headers(h.wire) = CORSHeaders

\* C2 amended: an OPTIONS request line that names an HTTP/1.x version is
\* answered, whatever the path and the files, with status 200, no body, and
\* the headers Server, Date and then the three CORS headers, nothing else.
C2_OptionsResponse ==
    (pc = "handled" /\ WellFormed(req) /\ req.command = "OPTIONS")
        => h.wire = << Tok("status", "", "HTTP/1.0", 200),
                       Tok("hdr", "Server", "SimpleHTTP/0.6", 0),
                       Tok("hdr", "Date", "now", 0) >>
                    \o CORSHeaders \o << Tok("end", "", "", 0) >>

C2_Witness ==
    /\ Responded /\ WellFormed(req) /\ req.command = "OPTIONS"
    /\ fs[req.path] = "absent" /\ StatusOf(h.wire) = 200

\* C3: when ssl/server.crt or ssl/server.key is missing, main goes no
\* further than the check: no socket is created, the accept loop is not
\* entered, and once it has moved it has printed the guidance and exited 1.
C3_MissingCertsExit ==
    (~certExists \/ ~keyExists)
        => /\ sock = "none" /\ ~wrapped /\ ~ctxLoaded /\ nServed = 0
           /\ pc \in {"start", "exited"}
           /\ IsPrefix(steps, << "check" >>)
           /\ pc = "exited" => (exitCode = 1 /\ stdout = Guidance)
           /\ pc = "start" => (exitCode = -1 /\ stdout = <<>>)

C3_Witness ==
    /\ certExists /\ ~keyExists /\ pc = "exited" /\ exitCode = 1
    /\ stdout = Guidance /\ sock = "none"

\* C4: an interrupt that arrives while the accept loop runs leads to the
\* process having printed the shutdown notice and exited with status 0: the
\* shutdown() call of the handler does not block.
C4_InterruptTerminates ==
    intInLoop ~> (pc = "exited" /\ exitCode = 0 /\ stdout = Banner \o <<StoppedNotice>>)

C4_Witness ==
    /\ intInLoop /\ pc = "exited" /\ exitCode = 0 /\ nServed > 0
    /\ Printed(StoppedNotice)

\* C5 as stated: a per-request error, an I/O failure while serving a file
\* included, reaches the client as an HTTP error status.
C5_ErrorReachesClientAsStatus ==
    (pc = "handled" /\ WellFormed(req) /\ h.raised) => StatusOf(h.wire) >= 400

\* C5 amended: a path that does not resolve or cannot be opened is answered
\* 404; a failure while the body is streamed ends the response early, after
\* its status 200 went out; in both cases the server stays in the accept loop
\* (the process does not exit with an error and the listener stays open) and
\* a later request is answered as a fresh handler answers it.
C5_ErrorIsLocal ==
    /\ (pc = "handled" /\ WellFormed(req) /\ req.command \in {"GET", "HEAD"}
            /\ fs[req.path] \in {"absent", "locked"})
           => h.wire[1] = Tok("status", "", "HTTP/1.0", 404)
    /\ (pc = "handled" /\ h.raised)
           => /\ WellFormed(req) => h.wire[1] = Tok("status", "", "HTTP/1.0", 200)
              /\ h.wire[Len(h.wire)] = Tok("body", req.path, "partial", 0)
    /\ failures > 0
           => /\ exitCode \in {-1, 0}
              /\ sock = "listening"
              /\ pc \in {"select", "accepted", "handled", "except",
                         "shutdown", "shutdown_wait", "exited"}
              /\ pc = "exited" => intInLoop
    /\ pc = "handled" => h = handle_one_request(NewHandler, req, fs, h.raised)

C5_Witness ==
    /\ failures > 0 /\ pc = "handled" /\ WellFormed(req)
    /\ req.command = "GET" /\ StatusOf(h.wire) = 200 /\ ~h.raised

\* C6 as stated: every request whose method is not OPTIONS is served as a
\* static file: 200 with the contents when the path resolves, 404 when it
\* does not, the CORS headers present.  (Stated here for the plainest
\* requests: no trailing slash, no If-Modified-Since.)
C6_NonOptionsIsStatic ==
    (pc = "handled" /\ WellFormed(req) /\ req.command # "OPTIONS"
        /\ ~req.ims /\ ~req.slash)
        => /\ HasCORS(h.wire)
           /\ fs[req.path] = "absent" => StatusOf(h.wire) = 404
           /\ fs[req.path] = "file" => StatusOf(h.wire) = 200

\* C6 amended: a GET request line that names an HTTP/1.x version, without a
\* satisfied If-Modified-Since, is served as a static file: 200 with the
\* file's contents for a path without trailing slash that is a readable file,
\* 200 with index.html for a path with trailing slash that is a directory
\* holding one (the body cut short only if the transfer fails), 404 when the
\* path does not exist; HEAD gets the headers of GET and no body; POST, PUT
\* and DELETE are answered 501 without a file-system call.  The CORS headers
\* are present in all of these.
C6_GetIsStatic ==
    (pc = "handled" /\ WellFormed(req) /\ req.command # "OPTIONS")
        => /\ HasCORS(h.wire)
           /\ (req.command = "GET" /\ ~req.ims /\ ~req.slash /\ fs[req.path] = "file")
                  => /\ StatusOf(h.wire) = 200
                     /\ Bodies(h.wire) = << Tok("body", req.path,
                            IF h.raised THEN "partial" ELSE "file", 0) >>
           /\ (req.command = "GET" /\ ~req.ims /\ req.slash /\ fs[req.path] = "dir_index")
                  => /\ StatusOf(h.wire) = 200
                     /\ Bodies(h.wire) = << Tok("body", req.path,
                            IF h.raised THEN "partial" ELSE "index.html", 0) >>
           /\ (req.command = "GET" /\ fs[req.path] = "absent")
                  => /\ StatusOf(h.wire) = 404
                     /\ Bodies(h.wire) = << Tok("body", "", "error", 404) >>
           /\ req.command = "HEAD"
                  => /\ Bodies(h.wire) = <<>>
                     /\ h.wire = SelectSeq(
                            handle_one_request(NewHandler,
                                [req EXCEPT !.command = "GET"], fs, FALSE).wire,
                            LAMBDA t : t.t # "body")
           /\ req.command \in {"POST", "PUT", "DELETE"}
                  => StatusOf(h.wire) = 501 /\ h.fsops = <<>>

C6_Witness ==
    /\ pc = "handled" /\ WellFormed(req) /\ req.command = "GET"
    /\ req.slash /\ fs[req.path] = "dir_index" /\ ~req.ims /\ ~h.raised
    /\ StatusOf(h.wire) = 200
    /\ Bodies(h.wire) = << Tok("body", req.path, "index.html", 0) >>

\* C7: handling an OPTIONS request makes no file-system call and leaves the
\* files as they are, and its response is the one any other content of the
\* working directory would give.
C7_OptionsLeavesFilesAlone ==
    [][(pc = "accepted" /\ req.command = "OPTIONS" /\ pc' = "handled")
          => /\ fs' = fs
             /\ h'.fsops = <<>>
             /\ \A g \in FileSystems :
                    handle_one_request(NewHandler, req, g, FALSE).wire = h'.wire]_vars

C7_Witness ==
    /\ Responded /\ WellFormed(req) /\ req.command = "OPTIONS"
    /\ fs[req.path] = "dir_plain" /\ h.fsops = <<>>

\* C8 as stated: on every response path the three CORS headers are the last
\* headers of the header block, each is added once, and no body byte is
\* written before them.
C8_EveryResponseCORSLast == Responded => CORSLastOnce(h.wire)

\* C8 amended: on every response path the overridden end_headers runs once,
\* its three send_header calls directly before the inherited end_headers and
\* before any body write; in every response to a request line that names an
\* HTTP/1.x version the three CORS headers are thereby the last headers of
\* the header block, each present once, ahead of every body byte.
C8_CORSLastWhenVersioned ==
    /\ Responded => EndHeadersOnce(h.calls)
    /\ (pc = "handled" /\ Versioned(req)) => CORSLastOnce(h.wire)

C8_Witness ==
    /\ Responded /\ Versioned(req) /\ req.command = "GET"
    /\ Bodies(h.wire) # <<>> /\ CORSLastOnce(h.wire) /\ EndHeadersOnce(h.calls)

\* C9 as stated: when the interrupt handler has finished, the listening
\* socket has been closed.
C9_SocketClosedAfterInterrupt ==
    (pc = "exited" /\ exitCode = 0) => sock = "closed"

\* C10: the startup steps are taken in the order check, bind, load, wrap,
\* banner, serve; a connection is accepted and a request parsed only on a
\* TLS-wrapped listener; the banner, which names https://localhost:3000/, is
\* printed only after the bind, the certificate load and the wrap succeeded.
C10_StartupOrder ==
    /\ IsPrefix(steps, MainOrder)
    /\ (pc \in {"select", "accepted", "handled"} \/ nServed > 0)
           => (wrapped /\ ctxLoaded /\ steps = MainOrder)
    /\ Printed(Banner[1])
           => /\ portFree /\ certValid /\ certExists /\ keyExists
              /\ sock = "listening" /\ ctxLoaded /\ wrapped
              /\ Banner[1] = Line("HTTPS server starting on https://localhost:{port}/", 3000)
              /\ SubSeq(steps, 1, 5) = SubSeq(MainOrder, 1, 5)
    /\ pc \in {"try", "select", "accepted", "handled"} => SubSeq(stdout, 1, 4) = Banner

C10_Witness ==
    /\ pc = "handled" /\ wrapped /\ Printed(Banner[1]) /\ steps = MainOrder
    /\ h.wire # <<>>

====
